---- MODULE Spec2Model ----
(***************************************************************************)
(* The user service of go-microservice-grpc-2023: the gRPC handlers        *)
(* (UserServer), the cache-aside orchestration (UserService), the          *)
(* PostgreSQL repository (UserRepository) and the Redis cache wrapper.     *)
(*                                                                         *)
(* Every request is a process p that walks through the external calls of   *)
(* its handler one call per step: a step is one round trip to the store or *)
(* to the cache, together with the local code up to the next round trip.   *)
(* Time is counted in minutes.                                             *)
(***************************************************************************)
EXTENDS Integers, Sequences, FiniteSets, TLC

VARIABLES
    users,      \* the rows of table users (the Record Store)
    nextID,     \* the next value of the BIGSERIAL sequence users_id_seq
    cache,      \* Redis: key -> entry
    now,        \* the wall clock, in minutes
    pc,         \* pc[p]: where request p stands in its handler
    op,         \* op[p]: the RPC that p runs
    arg,        \* arg[p]: the request message of p
    usr,        \* usr[p]: the local variable user of the service method
    lst,        \* lst[p]: the local variable users of ListUsers
    res,        \* res[p]: the response (or error) the handler returned
    calls,      \* calls[p]: the store and cache calls p has issued, in order
    nops,       \* the number of requests started so far
    \* History variables: they record what happened and steer nothing.
    last,       \* last[id]: the write to id that returned success and is still
                \*           the latest store write to id
    lastWrite,  \* lastWrite[id]: the time of the latest store write to id
    expect,     \* expect[p]: last[id] as GetUser request p found it on arrival
    absent,     \* absent[p]: the store has held no row for the id of GetUser
                \*            request p since p arrived
    clean,      \* clean[p]: the delete of user:<id> by write request p succeeded
                \*           while no GetUser(id) stood between its store read
                \*           and its cache set
    stale,      \* stale[p]: a store write to id came after GetUser request p
                \*           read its row
    step,       \* the request the lifecycle client has reached
    hist        \* the requests the lifecycle client has completed

server == <<users, nextID, cache, now>>
locals == <<pc, op, arg, usr, lst, res, calls>>
ghosts == <<last, lastWrite, expect, absent, clean, stale>>
client == <<step, hist>>
vars == <<users, nextID, cache, now, pc, op, arg, usr, lst, res, calls, nops,
          last, lastWrite, expect, absent, clean, stale, step, hist>>

-----------------------------------------------------------------------------
(* Bounds of the model *)

MaxID    == 2    \* ids the sequence may hand out
MaxOps   == 4    \* requests started in one run
MaxTime  == 6    \* the clock runs from 0 to MaxTime (SpecTTL)
MaxAged  == 3    \* requests started in one run of SpecTTL

Procs == {"p1", "p2"}

\* The (email, name) pairs clients send.
Inputs == {<<"a@x.com", "A">>, <<"b@x.com", "B">>}

\* The (page, page_size) pairs clients send.
ListInputs == {<<1, 1>>, <<0, -1>>}

Ids == 1..MaxID

-----------------------------------------------------------------------------
(* Program constants *)

\* 5*time.Minute, the expiration GetUser passes to cache.Set.
TTL == 5

\* min(int(req.PageSize), 100) in the ListUsers handler.
MaxPageSize == 100

-----------------------------------------------------------------------------
(* Data *)

\* The zero value of model.User.
NoUser == [id |-> 0, email |-> "", name |-> "", created_at |-> 0, updated_at |-> 0]

\* CacheKey without the id formatted in: every user shares one key.
CacheKey_Shared(id) == "user:" \o ToString(1)

\* fmt.Sprintf("user:%d", id)
CacheKey(id) == "user:" \o ToString(id)

ListKey == "users:list"

Keys == {CacheKey(i) : i \in Ids} \cup {ListKey}

\* A key Redis does not hold.
\* exp: when Redis drops the key. setAt and stale are history: when the entry
\* was set, and whether a store write to its id came after the store read
\* behind it.
NoEntry == [present |-> FALSE, val |-> <<>>, exp |-> 0, setAt |-> 0, stale |-> FALSE]

\* json.Marshal(user): the object's members in declaration order.
Marshal(u) ==
    << <<"id", u.id>>, <<"email", u.email>>, <<"name", u.name>>,
       <<"created_at", u.created_at>>, <<"updated_at", u.updated_at>> >>

\* Whether json.Unmarshal([]byte(cached), &user) returns nil.
UnmarshalOK(s) ==
    /\ Len(s) = 5
    /\ \A i \in 1..5 : Len(s[i]) = 2
    /\ <<s[1][1], s[2][1], s[3][1], s[4][1], s[5][1]>>
         = <<"id", "email", "name", "created_at", "updated_at">>

\* The user json.Unmarshal fills in.
Unmarshal(s) ==
    [id |-> s[1][2], email |-> s[2][2], name |-> s[3][2],
     created_at |-> s[4][2], updated_at |-> s[5][2]]

\* The pb.User a handler builds from a model.User: CreatedAt.Unix() and
\* UpdatedAt.Unix() are seconds, the clock of the model counts minutes.
PbUser(u) ==
    [id |-> u.id, email |-> u.email, name |-> u.name,
     created_at |-> u.created_at * 60, updated_at |-> u.updated_at * 60]

NoArg == [id |-> 0, email |-> "", name |-> "", page |-> 0, size |-> 0]

\* No settled write.
NoLast == [kind |-> "", by |-> "", email |-> "", name |-> "", clean |-> FALSE]

\* code: the gRPC status code; err: the cause at the bottom of the error chain.
NoRes == [code |-> "", err |-> "", user |-> NoUser, users |-> <<>>, total |-> 0]

-----------------------------------------------------------------------------
(* The Record Store: table users *)

HasRow(id) == \E u \in users : u.id = id

Row(id) == CHOOSE u \in users : u.id = id

\* email VARCHAR(255) UNIQUE: a row of another id already holds the email.
EmailTaken(email, id) == \E u \in users : u.email = email /\ u.id # id

\* An UPDATE that sets name and updated_at and leaves email as it is.
UpdatedRows_KeepEmail(user) ==
    {IF u.id = user.id
       THEN [u EXCEPT !.name = user.name, !.updated_at = user.updated_at]
       ELSE u : u \in users}

\* An UPDATE that also sets created_at to the time of the update.
UpdatedRows_Recreate(user) ==
    {IF u.id = user.id
       THEN [u EXCEPT !.email = user.email, !.name = user.name,
                      !.created_at = user.updated_at,
                      !.updated_at = user.updated_at]
       ELSE u : u \in users}

\* UPDATE users SET email, name, updated_at WHERE id = user.ID
UpdatedRows(user) ==
    {IF u.id = user.id
       THEN [u EXCEPT !.email = user.email, !.name = user.name,
                      !.updated_at = user.updated_at]
       ELSE u : u \in users}

\* DELETE FROM users WHERE id = $1
RemainingRows(id) == {u \in users : u.id # id}

\* The orders ORDER BY created_at DESC may return the table in.
Orderings ==
    LET n == Cardinality(users) IN
    {s \in [1..n -> users] :
        /\ \A i, j \in 1..n : i # j => s[i] # s[j]
        /\ \A i, j \in 1..n : i < j => s[i].created_at >= s[j].created_at}

\* LIMIT limit OFFSET offset of an ordering.
Window(s, limit, offset) ==
    SubSeq(s, offset + 1, IF offset + limit < Len(s) THEN offset + limit ELSE Len(s))

-----------------------------------------------------------------------------
(* The Lookaside Cache: Redis *)

\* CacheSet with the expiration taken in hours.
CacheSet_Hours(key, value, expiration, old) ==
    [cache EXCEPT ![key] =
        [present |-> TRUE, val |-> value, exp |-> now + expiration * 60,
         setAt |-> now, stale |-> old]]

\* SET key value EX expiration
CacheSet(key, value, expiration, old) ==
    [cache EXCEPT ![key] =
        [present |-> TRUE, val |-> value, exp |-> now + expiration,
         setAt |-> now, stale |-> old]]

\* DEL key
CacheDel(key) == [cache EXCEPT ![key] = NoEntry]

\* Redis drops a key once its expiration has passed.
Expire(c, t) == [k \in Keys |-> IF c[k].present /\ c[k].exp <= t THEN NoEntry ELSE c[k]]


-----------------------------------------------------------------------------
(* Initial state: the server has started on a table without the sample rows  *)
(* of migrations/init.sql, and an empty cache                                *)

Init ==
    /\ users = {}
    /\ nextID = 1
    /\ cache = [k \in Keys |-> NoEntry]
    /\ now = 0
    /\ pc = [p \in Procs |-> "idle"]
    /\ op = [p \in Procs |-> ""]
    /\ arg = [p \in Procs |-> NoArg]
    /\ usr = [p \in Procs |-> NoUser]
    /\ lst = [p \in Procs |-> <<>>]
    /\ res = [p \in Procs |-> NoRes]
    /\ calls = [p \in Procs |-> <<>>]
    /\ nops = 0
    /\ last = [i \in Ids |-> NoLast]
    /\ lastWrite = [i \in Ids |-> 0]
    /\ expect = [p \in Procs |-> NoLast]
    /\ absent = [p \in Procs |-> FALSE]
    /\ clean = [p \in Procs |-> FALSE]
    /\ stale = [p \in Procs |-> FALSE]
    /\ step = 0
    /\ hist = <<>>

-----------------------------------------------------------------------------
(* What every handler does *)

\* One call of request p, with whether it returned a nil error.
Call(p, name, key, ok) == calls' = [calls EXCEPT ![p] = Append(@, <<name, key, ok>>)]

\* Request p goes on to its next call.
Goto(p, next) ==
    /\ pc' = [pc EXCEPT ![p] = next]
    /\ res' = res

\* The handler of p returns a response.
Reply(p, r) ==
    /\ pc' = [pc EXCEPT ![p] = "done"]
    /\ res' = [res EXCEPT ![p] = r]

\* The handler of p returns status.Errorf(code, ...) for an error caused by err.
Fail(p, code, err) == Reply(p, [NoRes EXCEPT !.code = code, !.err = err])

\* A request arrives on connection p, whose previous request has returned:
\* the handler calls the service method.
Arrive(p, name, a, first, local, ex, ab) ==
    /\ pc[p] \in {"idle", "done"}
    /\ op' = [op EXCEPT ![p] = name]
    /\ arg' = [arg EXCEPT ![p] = a]
    /\ pc' = [pc EXCEPT ![p] = first]
    /\ usr' = [usr EXCEPT ![p] = local]
    /\ lst' = [lst EXCEPT ![p] = <<>>]
    /\ res' = [res EXCEPT ![p] = NoRes]
    /\ calls' = [calls EXCEPT ![p] = <<>>]
    /\ expect' = [expect EXCEPT ![p] = ex]
    /\ absent' = [absent EXCEPT ![p] = ab]
    /\ clean' = [clean EXCEPT ![p] = FALSE]
    /\ stale' = [stale EXCEPT ![p] = FALSE]
    /\ UNCHANGED <<users, nextID, cache, now, last, lastWrite>>

\* One more request of the run.
Budget ==
    /\ nops < MaxOps
    /\ nops' = nops + 1
    /\ UNCHANGED client

\* GetUser request q is under way for id.
InGet(q, id) == op[q] = "GetUser" /\ arg[q].id = id /\ pc[q] # "done"

\* GetUser request q holds a row of id that it has not written to the cache yet.
HoldsRow(q, id) == pc[q] = "get_set" /\ arg[q].id = id

\* History: request p applies a store write to id at this step.
Written(p, id) ==
    /\ last' = [last EXCEPT ![id] = [NoLast EXCEPT !.kind = "writing", !.by = p]]
    /\ expect' = [q \in Procs |-> IF InGet(q, id) THEN NoLast ELSE expect[q]]
    /\ stale' = [q \in Procs |-> IF HoldsRow(q, id) THEN TRUE ELSE stale[q]]
    /\ cache' = [cache EXCEPT ![CacheKey(id)].stale = cache[CacheKey(id)].present]

\* History: write request p returns success.
Settled(p, id, kind) ==
    last' = IF last[id].kind = "writing" /\ last[id].by = p
              THEN [last EXCEPT ![id] = [kind |-> kind, by |-> "",
                                         email |-> arg[p].email, name |-> arg[p].name,
                                         clean |-> clean[p]]]
              ELSE last

\* History: write request p has just deleted key user:<id>; up: DEL succeeded.
Invalidated(p, id, up) ==
    clean' = [clean EXCEPT ![p] = up /\ ~\E q \in Procs : HoldsRow(q, id)]

\* A minute passes.
Tick ==
    /\ now' = now + 1
    /\ cache' = Expire(cache, now + 1)
    /\ UNCHANGED <<users, nextID, nops>>
    /\ UNCHANGED <<locals, ghosts, client>>

-----------------------------------------------------------------------------
(* GetUser: handler UserServer.GetUser over UserService.GetUser *)

ArriveGet(p, id) ==
    Arrive(p, "GetUser", [NoArg EXCEPT !.id = id], "get_cache", NoUser,
           IF last[id].kind \in {"create", "update", "delete"} THEN last[id] ELSE NoLast,
           ~HasRow(id))

StartGet(p, id) == Budget /\ ArriveGet(p, id)

\* GetCache with a hit that extends the expiration of the entry.
GetCache_Refresh(p, up) ==
    /\ pc[p] = "get_cache"
    /\ LET key == CacheKey(arg[p].id)
           e   == cache[key]
           err == ~up \/ ~e.present
           cached == IF err THEN <<>> ELSE e.val
       IN  /\ Call(p, "cache.Get", key, ~err)
           /\ IF ~err /\ cached # <<>> /\ UnmarshalOK(cached)
                THEN /\ usr' = [usr EXCEPT ![p] = Unmarshal(cached)]
                     /\ cache' = [cache EXCEPT ![key].exp = now + TTL]
                     /\ Reply(p, [NoRes EXCEPT !.code = "OK",
                                               !.user = PbUser(Unmarshal(cached))])
                ELSE /\ usr' = usr
                     /\ cache' = cache
                     /\ Goto(p, "get_store")
    /\ UNCHANGED <<users, nextID, now, op, arg, lst, nops, ghosts, client>>

\* cached, err := s.cache.Get(ctx, cacheKey), and the return on a hit.
\* up: the cache answered. A key Redis does not hold is the error redis.Nil.
GetCache(p, up) ==
    /\ pc[p] = "get_cache"
    /\ LET key == CacheKey(arg[p].id)
           e   == cache[key]
           err == ~up \/ ~e.present
           cached == IF err THEN <<>> ELSE e.val
       IN  /\ Call(p, "cache.Get", key, ~err)
           /\ IF ~err /\ cached # <<>> /\ UnmarshalOK(cached)
                THEN /\ usr' = [usr EXCEPT ![p] = Unmarshal(cached)]
                     /\ Reply(p, [NoRes EXCEPT !.code = "OK",
                                               !.user = PbUser(Unmarshal(cached))])
                ELSE /\ usr' = usr
                     /\ Goto(p, "get_store")
    /\ UNCHANGED <<server, op, arg, lst, nops, ghosts, client>>

\* GetStore that caches the zero user when the store has no row.
GetStore_Negative(p, up) ==
    /\ pc[p] = "get_store"
    /\ LET id  == arg[p].id
           err == ~up \/ ~HasRow(id)
       IN  /\ Call(p, "repo.GetByID", ToString(id), ~err)
           /\ IF err
                THEN /\ usr' = usr
                     /\ cache' = IF up THEN CacheSet(CacheKey(id), Marshal(NoUser), TTL, FALSE)
                                        ELSE cache
                     /\ Fail(p, "NotFound", IF up THEN "no rows" ELSE "store failure")
                ELSE /\ usr' = [usr EXCEPT ![p] = Row(id)]
                     /\ cache' = cache
                     /\ Goto(p, "get_set")
    /\ UNCHANGED <<users, nextID, now, op, arg, lst, nops, ghosts, client>>

\* user, err := s.repo.GetByID(ctx, id); the handler answers every error NotFound.
\* up: the store answered. No row for id is the error pgx.ErrNoRows.
GetStore(p, up) ==
    /\ pc[p] = "get_store"
    /\ LET id  == arg[p].id
           err == ~up \/ ~HasRow(id)
       IN  /\ Call(p, "repo.GetByID", ToString(id), ~err)
           /\ IF err
                THEN /\ usr' = usr
                     /\ Fail(p, "NotFound", IF up THEN "no rows" ELSE "store failure")
                ELSE /\ usr' = [usr EXCEPT ![p] = Row(id)]
                     /\ Goto(p, "get_set")
    /\ UNCHANGED <<server, op, arg, lst, nops, ghosts, client>>

\* GetSet that returns the user without writing it to the cache.
GetSet_Skip(p, up) ==
    /\ pc[p] = "get_set"
    /\ Reply(p, [NoRes EXCEPT !.code = "OK", !.user = PbUser(usr[p])])
    /\ UNCHANGED <<server, op, arg, usr, lst, calls, nops, ghosts, client>>

\* s.cache.Set(ctx, cacheKey, string(data), 5*time.Minute); return user, nil.
GetSet(p, up) ==
    /\ pc[p] = "get_set"
    /\ LET key == CacheKey(arg[p].id) IN
           /\ Call(p, "cache.Set", key, up)
           /\ cache' = IF up THEN CacheSet(key, Marshal(usr[p]), TTL, stale[p]) ELSE cache
    /\ Reply(p, [NoRes EXCEPT !.code = "OK", !.user = PbUser(usr[p])])
    /\ UNCHANGED <<users, nextID, now, op, arg, usr, lst, nops, ghosts, client>>

-----------------------------------------------------------------------------
(* UpdateUser: handler UserServer.UpdateUser over UserService.UpdateUser *)

ArriveUpdate(p, id, in) ==
    Arrive(p, "UpdateUser", [NoArg EXCEPT !.id = id, !.email = in[1], !.name = in[2]],
           "upd_read", NoUser, NoLast, FALSE)

StartUpdate(p, id, in) == Budget /\ ArriveUpdate(p, id, in)

\* UpdRead that takes the user from the cache when user:<id> is there.
UpdRead_Cached(p, up) ==
    /\ pc[p] = "upd_read"
    /\ LET id  == arg[p].id
           e   == cache[CacheKey(id)]
           hit == up /\ e.present /\ UnmarshalOK(e.val)
           err == ~hit /\ (~up \/ ~HasRow(id))
       IN  /\ Call(p, "repo.GetByID", ToString(id), ~err)
           /\ IF err
                THEN /\ usr' = usr
                     /\ Fail(p, "Internal", IF up THEN "no rows" ELSE "store failure")
                ELSE /\ usr' = [usr EXCEPT ![p] =
                                  [(IF hit THEN Unmarshal(e.val) ELSE Row(id))
                                      EXCEPT !.email = arg[p].email,
                                             !.name = arg[p].name,
                                             !.updated_at = now]]
                     /\ Goto(p, "upd_store")
    /\ UNCHANGED <<server, op, arg, lst, nops, ghosts, client>>

\* user, err := s.repo.GetByID(ctx, id), then the three assignments to user.
UpdRead(p, up) ==
    /\ pc[p] = "upd_read"
    /\ LET id  == arg[p].id
           err == ~up \/ ~HasRow(id)
       IN  /\ Call(p, "repo.GetByID", ToString(id), ~err)
           /\ IF err
                THEN /\ usr' = usr
                     /\ Fail(p, "Internal", IF up THEN "no rows" ELSE "store failure")
                ELSE /\ usr' = [usr EXCEPT ![p] =
                                  [Row(id) EXCEPT !.email = arg[p].email,
                                                  !.name = arg[p].name,
                                                  !.updated_at = now]]
                     /\ Goto(p, "upd_store")
    /\ UNCHANGED <<server, op, arg, lst, nops, ghosts, client>>

\* s.repo.Update(ctx, user). An UPDATE that matches no row is no error.
UpdStore(p, up) ==
    /\ pc[p] = "upd_store"
    /\ LET id  == usr[p].id
           dup == HasRow(id) /\ EmailTaken(usr[p].email, id)
           err == ~up \/ dup
       IN  /\ Call(p, "repo.Update", ToString(id), ~err)
           /\ IF err
                THEN /\ users' = users
                     /\ Fail(p, "Internal", IF up THEN "unique violation" ELSE "store failure")
                ELSE /\ users' = UpdatedRows(usr[p])
                     /\ Goto(p, "upd_del1")
           /\ IF ~err /\ HasRow(id)
                THEN /\ Written(p, id)
                     /\ lastWrite' = [lastWrite EXCEPT ![id] = now]
                ELSE UNCHANGED <<last, lastWrite, expect, stale, cache>>
    /\ UNCHANGED <<nextID, now, op, arg, usr, lst, nops, absent, clean, client>>

\* UpdDel1 that returns the error of the delete to the caller.
UpdDel1_Propagate(p, up) ==
    /\ pc[p] = "upd_del1"
    /\ LET key == CacheKey(arg[p].id) IN
           /\ Call(p, "cache.Delete", key, up)
           /\ cache' = IF up THEN CacheDel(key) ELSE cache
    /\ Invalidated(p, arg[p].id, up)
    /\ IF up THEN Goto(p, "upd_del2") ELSE Fail(p, "Internal", "cache failure")
    /\ UNCHANGED <<users, nextID, now, op, arg, usr, lst, nops, client>>
    /\ UNCHANGED <<last, lastWrite, expect, absent, stale>>

\* UpdDel1 that leaves user:<id> alone: the update invalidates the list only.
UpdDel1_ListOnly(p, up) ==
    /\ pc[p] = "upd_del1"
    /\ Call(p, "cache.Delete", ListKey, up)
    /\ cache' = IF up THEN CacheDel(ListKey) ELSE cache
    /\ Invalidated(p, arg[p].id, up)
    /\ Goto(p, "upd_del2")
    /\ UNCHANGED <<users, nextID, now, op, arg, usr, lst, nops, client>>
    /\ UNCHANGED <<last, lastWrite, expect, absent, stale>>

\* cacheKey := fmt.Sprintf("user:%d", id); s.cache.Delete(ctx, cacheKey)
UpdDel1(p, up) ==
    /\ pc[p] = "upd_del1"
    /\ LET key == CacheKey(arg[p].id) IN
           /\ Call(p, "cache.Delete", key, up)
           /\ cache' = IF up THEN CacheDel(key) ELSE cache
    /\ Invalidated(p, arg[p].id, up)
    /\ Goto(p, "upd_del2")
    /\ UNCHANGED <<users, nextID, now, op, arg, usr, lst, nops, client>>
    /\ UNCHANGED <<last, lastWrite, expect, absent, stale>>

\* s.cache.Delete(ctx, "users:list"); return user, nil.
UpdDel2(p, up) ==
    /\ pc[p] = "upd_del2"
    /\ Call(p, "cache.Delete", ListKey, up)
    /\ cache' = IF up THEN CacheDel(ListKey) ELSE cache
    /\ Reply(p, [NoRes EXCEPT !.code = "OK", !.user = PbUser(usr[p])])
    /\ Settled(p, arg[p].id, "update")
    /\ UNCHANGED <<users, nextID, now, op, arg, usr, lst, nops, client>>
    /\ UNCHANGED <<lastWrite, expect, absent, clean, stale>>

-----------------------------------------------------------------------------
(* DeleteUser: handler UserServer.DeleteUser over UserService.DeleteUser *)

ArriveDelete(p, id) ==
    Arrive(p, "DeleteUser", [NoArg EXCEPT !.id = id], "del_store", NoUser, NoLast, FALSE)

StartDelete(p, id) == Budget /\ ArriveDelete(p, id)

\* DelStore that goes on to the invalidation whatever the store answered.
DelStore_Ignore(p, up) ==
    /\ pc[p] = "del_store"
    /\ LET id == arg[p].id IN
           /\ Call(p, "repo.Delete", ToString(id), up)
           /\ Goto(p, "del_del1")
           /\ IF ~up
                THEN /\ users' = users
                     /\ UNCHANGED <<last, lastWrite, expect, stale, cache>>
                ELSE /\ users' = RemainingRows(id)
                     /\ Written(p, id)
                     /\ lastWrite' = IF HasRow(id) THEN [lastWrite EXCEPT ![id] = now]
                                                   ELSE lastWrite
    /\ UNCHANGED <<nextID, now, op, arg, usr, lst, nops, absent, clean, client>>

\* DelStore that reports a DELETE matching no row as an error.
DelStore_Strict(p, up) ==
    /\ pc[p] = "del_store"
    /\ LET id == arg[p].id IN
           /\ Call(p, "repo.Delete", ToString(id), up /\ HasRow(id))
           /\ IF ~up \/ ~HasRow(id)
                THEN /\ users' = users
                     /\ Fail(p, "Internal", IF up THEN "no rows" ELSE "store failure")
                     /\ UNCHANGED <<last, lastWrite, expect, stale, cache>>
                ELSE /\ users' = RemainingRows(id)
                     /\ Goto(p, "del_del1")
                     /\ Written(p, id)
                     /\ lastWrite' = [lastWrite EXCEPT ![id] = now]
    /\ UNCHANGED <<nextID, now, op, arg, usr, lst, nops, absent, clean, client>>

\* s.repo.Delete(ctx, id). A DELETE that matches no row is no error.
DelStore(p, up) ==
    /\ pc[p] = "del_store"
    /\ LET id == arg[p].id IN
           /\ Call(p, "repo.Delete", ToString(id), up)
           /\ IF ~up
                THEN /\ users' = users
                     /\ Fail(p, "Internal", "store failure")
                     /\ UNCHANGED <<last, lastWrite, expect, stale, cache>>
                ELSE /\ users' = RemainingRows(id)
                     /\ Goto(p, "del_del1")
                     /\ Written(p, id)
                     /\ lastWrite' = IF HasRow(id) THEN [lastWrite EXCEPT ![id] = now]
                                                   ELSE lastWrite
    /\ UNCHANGED <<nextID, now, op, arg, usr, lst, nops, absent, clean, client>>

\* DelDel1 that leaves user:<id> alone: the delete invalidates the list only.
DelDel1_ListOnly(p, up) ==
    /\ pc[p] = "del_del1"
    /\ Call(p, "cache.Delete", ListKey, up)
    /\ cache' = IF up THEN CacheDel(ListKey) ELSE cache
    /\ Invalidated(p, arg[p].id, up)
    /\ Goto(p, "del_del2")
    /\ UNCHANGED <<users, nextID, now, op, arg, usr, lst, nops, client>>
    /\ UNCHANGED <<last, lastWrite, expect, absent, stale>>

\* cacheKey := fmt.Sprintf("user:%d", id); s.cache.Delete(ctx, cacheKey)
DelDel1(p, up) ==
    /\ pc[p] = "del_del1"
    /\ LET key == CacheKey(arg[p].id) IN
           /\ Call(p, "cache.Delete", key, up)
           /\ cache' = IF up THEN CacheDel(key) ELSE cache
    /\ Invalidated(p, arg[p].id, up)
    /\ Goto(p, "del_del2")
    /\ UNCHANGED <<users, nextID, now, op, arg, usr, lst, nops, client>>
    /\ UNCHANGED <<last, lastWrite, expect, absent, stale>>

\* s.cache.Delete(ctx, "users:list"); return nil.
DelDel2(p, up) ==
    /\ pc[p] = "del_del2"
    /\ Call(p, "cache.Delete", ListKey, up)
    /\ cache' = IF up THEN CacheDel(ListKey) ELSE cache
    /\ Reply(p, [NoRes EXCEPT !.code = "OK"])
    /\ Settled(p, arg[p].id, "delete")
    /\ UNCHANGED <<users, nextID, now, op, arg, usr, lst, nops, client>>
    /\ UNCHANGED <<lastWrite, expect, absent, clean, stale>>

-----------------------------------------------------------------------------
(* CreateUser: handler UserServer.CreateUser over UserService.CreateUser *)

\* Creates under way that have not reached the sequence yet.
PendingCreates == Cardinality({q \in Procs : pc[q] = "cr_store"})

\* The user literal up to CreatedAt: time.Now().
ArriveCreate(p, in) ==
    Arrive(p, "CreateUser", [NoArg EXCEPT !.email = in[1], !.name = in[2]], "cr_store",
           [NoUser EXCEPT !.email = in[1], !.name = in[2], !.created_at = now],
           NoLast, FALSE)

StartCreate(p, in) ==
    /\ nextID + PendingCreates <= MaxID
    /\ Budget
    /\ ArriveCreate(p, in)

\* UpdatedAt: time.Now(), then s.repo.Create(ctx, user): INSERT ... RETURNING id.
\* The sequence hands out its value before the UNIQUE constraint is checked.
CrStore(p, up) ==
    /\ pc[p] = "cr_store"
    /\ LET user == [usr[p] EXCEPT !.updated_at = now]
           dup  == EmailTaken(user.email, 0)
           err  == ~up \/ dup
       IN  /\ Call(p, "repo.Create", "", ~err)
           /\ nextID' = IF up THEN nextID + 1 ELSE nextID
           /\ IF err
                THEN /\ users' = users
                     /\ usr' = [usr EXCEPT ![p] = user]
                     /\ Fail(p, "Internal", IF up THEN "unique violation" ELSE "store failure")
                     /\ UNCHANGED <<last, lastWrite, expect, absent, stale, cache>>
                ELSE /\ users' = users \cup {[user EXCEPT !.id = nextID]}
                     /\ usr' = [usr EXCEPT ![p] = [user EXCEPT !.id = nextID]]
                     /\ Goto(p, "cr_del")
                     /\ Written(p, nextID)
                     /\ lastWrite' = [lastWrite EXCEPT ![nextID] = now]
                     /\ absent' = [q \in Procs |->
                                     IF InGet(q, nextID) THEN FALSE ELSE absent[q]]
    /\ UNCHANGED <<now, op, arg, lst, nops, clean, client>>

\* CrDel that also writes the new user to the cache.
CrDel_Populate(p, up) ==
    /\ pc[p] = "cr_del"
    /\ Call(p, "cache.Delete", ListKey, up)
    /\ cache' = IF up
                  THEN [CacheDel(ListKey) EXCEPT ![CacheKey(usr[p].id)] =
                           [present |-> TRUE, val |-> Marshal(usr[p]), exp |-> now + TTL,
                            setAt |-> now, stale |-> FALSE]]
                  ELSE cache
    /\ Reply(p, [NoRes EXCEPT !.code = "OK", !.user = PbUser(usr[p])])
    /\ Settled(p, usr[p].id, "create")
    /\ UNCHANGED <<users, nextID, now, op, arg, usr, lst, nops, client>>
    /\ UNCHANGED <<lastWrite, expect, absent, clean, stale>>

\* s.cache.Delete(ctx, "users:list"); return user, nil.
CrDel(p, up) ==
    /\ pc[p] = "cr_del"
    /\ Call(p, "cache.Delete", ListKey, up)
    /\ cache' = IF up THEN CacheDel(ListKey) ELSE cache
    /\ Reply(p, [NoRes EXCEPT !.code = "OK", !.user = PbUser(usr[p])])
    /\ Settled(p, usr[p].id, "create")
    /\ UNCHANGED <<users, nextID, now, op, arg, usr, lst, nops, client>>
    /\ UNCHANGED <<lastWrite, expect, absent, clean, stale>>

-----------------------------------------------------------------------------
(* ListUsers: handler UserServer.ListUsers over UserService.ListUsers *)

\* pageSize := min(int(req.PageSize), 100)
PageSize(a) == IF a.size < MaxPageSize THEN a.size ELSE MaxPageSize

\* page := max(int(req.Page), 1)
Page(a) == IF a.page > 1 THEN a.page ELSE 1

\* offset := (page - 1) * pageSize
Offset(a) == (Page(a) - 1) * PageSize(a)

ArriveList(p, in) ==
    Arrive(p, "ListUsers", [NoArg EXCEPT !.page = in[1], !.size = in[2]], "list_rows",
           NoUser, NoLast, FALSE)

StartList(p, in) == Budget /\ ArriveList(p, in)

\* users, err := s.repo.List(ctx, pageSize, offset).
\* PostgreSQL rejects a negative LIMIT and a negative OFFSET.
ListRows(p, up) ==
    /\ pc[p] = "list_rows"
    /\ LET limit  == PageSize(arg[p])
           offset == Offset(arg[p])
           err    == ~up \/ limit < 0 \/ offset < 0
       IN  /\ Call(p, "repo.List", "", ~err)
           /\ IF err
                THEN /\ lst' = lst
                     /\ Fail(p, "Internal", IF up THEN "invalid limit" ELSE "store failure")
                ELSE /\ \E s \in Orderings :
                            lst' = [lst EXCEPT ![p] = Window(s, limit, offset)]
                     /\ Goto(p, "list_count")
    /\ UNCHANGED <<server, op, arg, usr, nops, ghosts, client>>

\* ListCount that stores the page under users:list before it returns.
ListCount_Cached(p, up) ==
    /\ pc[p] = "list_count"
    /\ Call(p, "repo.Count", "", up)
    /\ IF ~up
         THEN /\ cache' = cache
              /\ Fail(p, "Internal", "store failure")
         ELSE /\ cache' = CacheSet(ListKey, <<Len(lst[p]), Cardinality(users)>>, TTL, FALSE)
              /\ Reply(p, [NoRes EXCEPT !.code = "OK",
                                        !.users = [i \in 1..Len(lst[p]) |-> PbUser(lst[p][i])],
                                        !.total = Cardinality(users)])
    /\ UNCHANGED <<users, nextID, now, op, arg, usr, lst, nops, ghosts, client>>

\* total, err := s.repo.Count(ctx); return users, total, nil.
ListCount(p, up) ==
    /\ pc[p] = "list_count"
    /\ Call(p, "repo.Count", "", up)
    /\ IF ~up
         THEN Fail(p, "Internal", "store failure")
         ELSE Reply(p, [NoRes EXCEPT !.code = "OK",
                                     !.users = [i \in 1..Len(lst[p]) |-> PbUser(lst[p][i])],
                                     !.total = Cardinality(users)])
    /\ UNCHANGED <<server, op, arg, usr, lst, nops, ghosts, client>>

-----------------------------------------------------------------------------
(* Spec: a burst of concurrent requests; store and cache calls may fail *)

Next ==
    \/ \E p \in Procs, id \in Ids : StartGet(p, id)
    \/ \E p \in Procs, up \in BOOLEAN : GetCache(p, up)
    \/ \E p \in Procs, up \in BOOLEAN : GetStore(p, up)
    \/ \E p \in Procs, up \in BOOLEAN : GetSet(p, up)
    \/ \E p \in Procs, id \in Ids, in \in Inputs : StartUpdate(p, id, in)
    \/ \E p \in Procs, up \in BOOLEAN : UpdRead(p, up)
    \/ \E p \in Procs, up \in BOOLEAN : UpdStore(p, up)
    \/ \E p \in Procs, up \in BOOLEAN : UpdDel1(p, up)
    \/ \E p \in Procs, up \in BOOLEAN : UpdDel2(p, up)
    \/ \E p \in Procs, id \in Ids : StartDelete(p, id)
    \/ \E p \in Procs, up \in BOOLEAN : DelStore(p, up)
    \/ \E p \in Procs, up \in BOOLEAN : DelDel1(p, up)
    \/ \E p \in Procs, up \in BOOLEAN : DelDel2(p, up)
    \/ \E p \in Procs, in \in Inputs : StartCreate(p, in)
    \/ \E p \in Procs, up \in BOOLEAN : CrStore(p, up)
    \/ \E p \in Procs, up \in BOOLEAN : CrDel(p, up)
    \/ \E p \in Procs, in \in ListInputs : StartList(p, in)
    \/ \E p \in Procs, up \in BOOLEAN : ListRows(p, up)
    \/ \E p \in Procs, up \in BOOLEAN : ListCount(p, up)

Spec == Init /\ [][Next]_vars

-----------------------------------------------------------------------------
(* SpecTTL: the cache entry of one user ages. One connection creates,       *)
(* updates and deletes the first user, both connections read it, and the    *)
(* clock advances; cache calls may fail.                                    *)

\* The first id the sequence hands out.
FirstID == CHOOSE i \in Ids : \A j \in Ids : i <= j

Writers == {"p1"}

\* One more request of the run of SpecTTL.
Aged == nops < MaxAged

NextTTL ==
    \/ \E p \in Procs : Aged /\ StartGet(p, FirstID)
    \/ \E p \in Procs, up \in BOOLEAN : GetCache(p, up)
    \/ \E p \in Procs : GetStore(p, TRUE)
    \/ \E p \in Procs, up \in BOOLEAN : GetSet(p, up)
    \/ \E p \in Writers, in \in Inputs : Aged /\ StartUpdate(p, FirstID, in)
    \/ \E p \in Writers : UpdRead(p, TRUE)
    \/ \E p \in Writers : UpdStore(p, TRUE)
    \/ \E p \in Writers, up \in BOOLEAN : UpdDel1(p, up)
    \/ \E p \in Writers : UpdDel2(p, TRUE)
    \/ \E p \in Writers : Aged /\ StartDelete(p, FirstID)
    \/ \E p \in Writers : DelStore(p, TRUE)
    \/ \E p \in Writers, up \in BOOLEAN : DelDel1(p, up)
    \/ \E p \in Writers : DelDel2(p, TRUE)
    \/ \E p \in Writers, in \in Inputs : Aged /\ nextID = FirstID /\ StartCreate(p, in)
    \/ \E p \in Writers : CrStore(p, TRUE)
    \/ \E p \in Writers : CrDel(p, TRUE)
    \/ now < MaxTime /\ Tick

SpecTTL == Init /\ [][NextTTL]_vars

-----------------------------------------------------------------------------
(* SpecSeq: the lifecycle client. One connection sends one request at a     *)
(* time and waits for the response before it sends the next; it gives up on *)
(* the first error. Every store call and every cache call is answered. The  *)
(* requests are those of cmd/client (create, get, list, update, delete of   *)
(* the created id) with a second read after the first and a read after the  *)
(* update and after the delete.                                             *)

Client == "p1"

Script == <<"CreateUser", "GetUser", "GetUser", "ListUsers",
            "UpdateUser", "GetUser", "DeleteUser", "GetUser">>

\* context.WithTimeout(context.Background(), 10*time.Second): the clock passes
\* at most one minute mark while the client runs.
Deadline == 1

\* createResp.User.Id
CreatedID == hist[1].res.user.id

\* The client sends its next request.
ClientSend ==
    /\ step < Len(Script)
    /\ Len(hist) = step
    /\ step > 0 => hist[step].res.code = "OK"
    /\ LET name == Script[step + 1] IN
           \/ name = "CreateUser" /\ \E in \in Inputs : ArriveCreate(Client, in)
           \/ name = "GetUser" /\ ArriveGet(Client, CreatedID)
           \/ name = "ListUsers" /\ \E in \in ListInputs : ArriveList(Client, in)
           \/ name = "UpdateUser" /\ \E in \in Inputs : ArriveUpdate(Client, CreatedID, in)
           \/ name = "DeleteUser" /\ ArriveDelete(Client, CreatedID)
    /\ step' = step + 1
    /\ UNCHANGED <<nops, hist>>

\* The client receives the response; the record keeps the cache of that moment.
ClientRecv ==
    /\ pc[Client] = "done"
    /\ Len(hist) < step
    /\ hist' = Append(hist, [op |-> op[Client], arg |-> arg[Client], res |-> res[Client],
                             calls |-> calls[Client], cache |-> cache])
    /\ UNCHANGED <<server, locals, ghosts, nops, step>>

NextSeq ==
    \/ ClientSend
    \/ ClientRecv
    \/ GetCache(Client, TRUE)
    \/ GetStore(Client, TRUE)
    \/ GetSet(Client, TRUE)
    \/ UpdRead(Client, TRUE)
    \/ UpdStore(Client, TRUE)
    \/ UpdDel1(Client, TRUE)
    \/ UpdDel2(Client, TRUE)
    \/ DelStore(Client, TRUE)
    \/ DelDel1(Client, TRUE)
    \/ DelDel2(Client, TRUE)
    \/ CrStore(Client, TRUE)
    \/ CrDel(Client, TRUE)
    \/ ListRows(Client, TRUE)
    \/ ListCount(Client, TRUE)
    \/ now < Deadline /\ Tick

SpecSeq == Init /\ [][NextSeq]_vars

-----------------------------------------------------------------------------
(* SpecList: listing over a fixed table. The table holds the sample rows of *)
(* migrations/init.sql, created at the same moment or at different ones;    *)
(* both connections send ListUsers requests and nothing is written.         *)

\* The rows of INSERT INTO users (email, name) VALUES ... in init.sql.
SampleRows == 3

SampleInputs == <<
    <<"john@example.com", "John Doe">>,
    <<"jane@example.com", "Jane Smith">>,
    <<"bob@example.com", "Bob Wilson">> >>

\* The (page, page_size) pairs sent over the fixed table.
PageInputs == {<<1, 1>>, <<2, 1>>, <<3, 1>>, <<1, 2>>, <<2, 2>>}

\* The table with the sample rows created at the times at[1], at[2], at[3].
SampleTable(at) ==
    {[id |-> i, email |-> SampleInputs[i][1], name |-> SampleInputs[i][2],
      created_at |-> at[i], updated_at |-> at[i]] : i \in 1..SampleRows}

InitList ==
    /\ \E at \in [1..SampleRows -> 0..1] : users = SampleTable(at)
    /\ nextID = SampleRows + 1
    /\ cache = [k \in Keys |-> NoEntry]
    /\ now = 1
    /\ pc = [p \in Procs |-> "idle"]
    /\ op = [p \in Procs |-> ""]
    /\ arg = [p \in Procs |-> NoArg]
    /\ usr = [p \in Procs |-> NoUser]
    /\ lst = [p \in Procs |-> <<>>]
    /\ res = [p \in Procs |-> NoRes]
    /\ calls = [p \in Procs |-> <<>>]
    /\ nops = 0
    /\ last = [i \in Ids |-> NoLast]
    /\ lastWrite = [i \in Ids |-> 0]
    /\ expect = [p \in Procs |-> NoLast]
    /\ absent = [p \in Procs |-> FALSE]
    /\ clean = [p \in Procs |-> FALSE]
    /\ stale = [p \in Procs |-> FALSE]
    /\ step = 0
    /\ hist = <<>>

NextList ==
    \/ \E p \in Procs, in \in PageInputs : ArriveList(p, in) /\ UNCHANGED <<nops, client>>
    \/ \E p \in Procs : ListRows(p, TRUE)
    \/ \E p \in Procs : ListCount(p, TRUE)

SpecList == InitList /\ [][NextList]_vars

-----------------------------------------------------------------------------
(* SpecBlank: one connection creates and updates users with any strings,    *)
(* the empty string among them; every call is answered.                     *)

\* The (email, name) pairs with an empty member.
BlankInputs == {<<"", "A">>, <<"b@x.com", "">>}

NextBlank ==
    \/ \E p \in Writers, in \in Inputs \cup BlankInputs : StartCreate(p, in)
    \/ \E p \in Writers : CrStore(p, TRUE)
    \/ \E p \in Writers : CrDel(p, TRUE)
    \/ \E p \in Writers, id \in Ids, in \in Inputs \cup BlankInputs : StartUpdate(p, id, in)
    \/ \E p \in Writers : UpdRead(p, TRUE)
    \/ \E p \in Writers : UpdStore(p, TRUE)
    \/ \E p \in Writers : UpdDel1(p, TRUE)
    \/ \E p \in Writers : UpdDel2(p, TRUE)

SpecBlank == Init /\ [][NextBlank]_vars

-----------------------------------------------------------------------------
(* What a request did, read off its calls *)

Done(p, name) == pc[p] = "done" /\ op[p] = name

\* The calls of request p named name.
CallsOf(p, name) == {i \in 1..Len(calls[p]) : calls[p][i][1] = name}

\* The calls of request p named name on key.
CallsOn(p, name, key) == {i \in CallsOf(p, name) : calls[p][i][2] = key}

StoreCalls == {"repo.Create", "repo.GetByID", "repo.List", "repo.Count",
               "repo.Update", "repo.Delete"}

CacheCalls == {"cache.Get", "cache.Set", "cache.Delete"}

\* A store call in the call log s returned an error.
HasFailedStoreCall(s) == \E i \in 1..Len(s) : s[i][1] \in StoreCalls /\ ~s[i][3]

\* A store call of request p returned an error.
StoreFailed(p) == HasFailedStoreCall(calls[p])

\* The cache calls in the call log s, in order, as <<name, key>>.
CacheOps(s) ==
    LET IsCacheCall(c) == c[1] \in CacheCalls
        t == SelectSeq(s, IsCacheCall)
    IN  [i \in 1..Len(t) |-> <<t[i][1], t[i][2]>>]

\* The names of the calls in the call log s, in order.
CallNames(s) == [i \in 1..Len(s) |-> s[i][1]]

WriteOps == {"CreateUser", "UpdateUser", "DeleteUser"}

\* This step is a call of request p.
Steps(p) == pc[p] \notin {"idle", "done"} /\ pc'[p] # pc[p]

\* This step is the last call of request p: its handler returns.
Returns(p) == Steps(p) /\ pc'[p] = "done"

\* A cache call of request p returned an error other than redis.Nil.
CacheFailed(p) ==
    \E i \in 1..Len(calls[p]) :
        /\ calls[p][i][1] \in CacheCalls
        /\ ~calls[p][i][3]
        /\ calls[p][i][1] = "cache.Get" => Len(calls[p]) > i

\* GetUser request p was answered from the cache.
FromCache(p) == Done(p, "GetUser") /\ res[p].code = "OK" /\ CallsOf(p, "repo.GetByID") = {}

\* GetUser request p was answered from the store.
FromStore(p) == Done(p, "GetUser") /\ res[p].code = "OK" /\ CallsOf(p, "repo.GetByID") # {}

\* What GetUser(id) returns when the cache serves it, and when the store does.
CacheView(id) == PbUser(Unmarshal(cache[CacheKey(id)].val))
StoreView(id) == PbUser(Row(id))

\* No request that names id is under way.
Quiet(id) == \A p \in Procs : pc[p] \in {"idle", "done"} \/ arg[p].id # id

-----------------------------------------------------------------------------
(* C1 *)

\* Every UpdateUser that returns success has issued the delete of user:<id>.
DeleteBeforeReturn ==
    \A p \in Procs :
        Done(p, "UpdateUser") /\ res[p].code = "OK"
            => CallsOn(p, "cache.Delete", CacheKey(arg[p].id)) # {}

\* GetUser request p has returned the email and name of the update it followed.
ReturnsUpdate(p) ==
    /\ res[p].code = "OK"
    /\ res[p].user.email = expect[p].email
    /\ res[p].user.name = expect[p].name

-----------------------------------------------------------------------------
(* C2 *)

\* The entry of user:<id> is not what the store holds for id.
Diverges(id) ==
    /\ cache[CacheKey(id)].present
    /\ ~HasRow(id) \/ CacheView(id) # StoreView(id)

\* C2 as claimed: whenever the entry of user:<id> differs from the store's
\* record of id (or is there while the store has none), less than one TTL has
\* passed since the store write that caused it: here since the latest store
\* write to id, which is that write or a later one.
C2_DivergenceWithinTTLOfWrite ==
    \A id \in Ids : Diverges(id) => now < lastWrite[id] + TTL

\* C2 as amended: whenever the entry of user:<id> differs from the store's
\* record of id, less than one TTL has passed since the cache set that stored
\* the entry.
C2_DivergenceWithinTTLOfSet ==
    \A id \in Ids : Diverges(id) => now < cache[CacheKey(id)].setAt + TTL

\* An entry that differs from the store is in its last minute, and was set
\* after the store write it misses.
C2_Witness ==
    \E id \in Ids :
        /\ Diverges(id)
        /\ now = cache[CacheKey(id)].setAt + TTL - 1
        /\ cache[CacheKey(id)].setAt > lastWrite[id]

-----------------------------------------------------------------------------
(* C3 *)

\* C3 as claimed: in every state in which user:<id> is cached and no request
\* on id is under way, the store holds id and GetUser(id) returns the same
\* five fields from the cache as from the store.
C3_CacheTransparency ==
    \A id \in Ids :
        cache[CacheKey(id)].present /\ Quiet(id)
            => HasRow(id) /\ CacheView(id) = StoreView(id)

\* C3 as amended: in every state in which user:<id> is cached, no request on
\* id is under way and no store write to id has come after the store read
\* behind the entry, the store holds id and GetUser(id) returns the same five
\* fields from the cache as from the store.
C3_FreshCacheTransparency ==
    \A id \in Ids :
        cache[CacheKey(id)].present /\ Quiet(id) /\ ~cache[CacheKey(id)].stale
            => HasRow(id) /\ CacheView(id) = StoreView(id)

\* An updated user is cached, nothing is under way on its id, and a GetUser
\* has been answered from that entry.
C3_Witness ==
    \E id \in Ids, p \in Procs :
        /\ cache[CacheKey(id)].present /\ Quiet(id) /\ ~cache[CacheKey(id)].stale
        /\ last[id].kind = "update"
        /\ FromCache(p) /\ arg[p].id = id /\ res[p].user = StoreView(id)

-----------------------------------------------------------------------------
(* C4 *)

\* C4 as claimed: a GetUser(id) during which the store never held id fails
\* NotFound, and so does one that arrives after DeleteUser(id) has returned
\* success.
C4_AbsentIsNotFound ==
    \A p \in Procs :
        Done(p, "GetUser") /\ (absent[p] \/ expect[p].kind = "delete")
            => res[p].code = "NotFound"

\* C4 as amended: a GetUser(id) during which the store never held id fails
\* NotFound when it reads the store, and when it arrives after a DeleteUser(id)
\* that returned success, whose delete of user:<id> succeeded while no
\* GetUser(id) stood between its store read and its cache set.
C4_AbsentAtStoreIsNotFound ==
    \A p \in Procs :
        /\ Done(p, "GetUser")
        /\ \/ absent[p] /\ CallsOf(p, "repo.GetByID") # {}
           \/ expect[p].kind = "delete" /\ expect[p].clean
        => res[p].code = "NotFound"

\* A GetUser that arrived after a clean delete of a user that was cached
\* has failed NotFound on the answer of the store.
C4_Witness ==
    \E p \in Procs :
        /\ Done(p, "GetUser") /\ expect[p].kind = "delete" /\ expect[p].clean
        /\ res[p].code = "NotFound" /\ res[p].err = "no rows"
        /\ nextID > arg[p].id

-----------------------------------------------------------------------------
(* C5 *)

\* C5: a request all of whose store calls succeeded has returned success,
\* whatever its cache calls returned.
C5_CacheNeverFails ==
    \A p \in Procs : pc[p] = "done" /\ ~StoreFailed(p) => res[p].code = "OK"

\* An UpdateUser both of whose deletes failed, and a GetUser whose cache read
\* and cache set failed, have returned success.
C5_Witness ==
    \E p, q \in Procs :
        /\ Done(p, "UpdateUser") /\ res[p].code = "OK"
        /\ \A i \in CallsOf(p, "cache.Delete") : ~calls[p][i][3]
        /\ Done(q, "GetUser") /\ res[q].code = "OK"
        /\ \A i \in CallsOf(q, "cache.Set") : ~calls[q][i][3]
        /\ CallsOf(q, "cache.Set") # {}

-----------------------------------------------------------------------------
(* C6 *)

\* C6: when a store call of CreateUser, UpdateUser or DeleteUser fails
\* (UpdateUser's read included), the handler returns an error on that step,
\* the step leaves the cache as it was, and the request has issued no cache
\* call.
C6_FailedWriteLeavesCache ==
    [][\A p \in Procs :
          op[p] \in WriteOps /\ Returns(p) /\ HasFailedStoreCall(calls'[p])
              => /\ res'[p].code # "OK"
                 /\ cache' = cache
                 /\ CacheOps(calls'[p]) = <<>>]_vars

\* An UpdateUser of a cached user has failed on the uniqueness of the email,
\* and the entry is still cached.
C6_Witness ==
    \E p \in Procs :
        /\ Done(p, "UpdateUser") /\ res[p].err = "unique violation"
        /\ cache[CacheKey(arg[p].id)].present

-----------------------------------------------------------------------------
(* C7 *)

\* The keys request p may invalidate.
Affected(p) ==
    IF op[p] = "CreateUser" THEN {ListKey} ELSE {CacheKey(arg[p].id), ListKey}

\* C7: a CreateUser that returns success has issued one cache call, the delete
\* of users:list; an UpdateUser(id) or DeleteUser(id) that returns success has
\* issued two, the delete of user:<id> and then that of users:list, whatever
\* they returned; and no step of a mutation changes the entry of another key.
C7_ExactInvalidation ==
    [][\A p \in Procs :
          /\ op[p] = "CreateUser" /\ Returns(p) /\ res'[p].code = "OK"
                => CacheOps(calls'[p]) = << <<"cache.Delete", ListKey>> >>
          /\ op[p] \in {"UpdateUser", "DeleteUser"} /\ Returns(p) /\ res'[p].code = "OK"
                => CacheOps(calls'[p]) = << <<"cache.Delete", CacheKey(arg[p].id)>>,
                                            <<"cache.Delete", ListKey>> >>
          /\ op[p] \in WriteOps /\ Steps(p)
                => \A k \in Keys \ Affected(p) : cache'[k] = cache[k]]_vars

\* An UpdateUser whose first delete failed has returned success while the
\* entry of another user is cached.
C7_Witness ==
    \E p \in Procs, id \in Ids :
        /\ Done(p, "UpdateUser") /\ res[p].code = "OK"
        /\ ~calls[p][3][3]
        /\ id # arg[p].id /\ cache[CacheKey(id)].present

-----------------------------------------------------------------------------
(* C8 *)

\* C8: a GetUser is answered from the cache only by an entry set less than
\* TTL ago, with the cache read as its only call and the cache left as it
\* was; a cache read that finds no entry goes on to the store; a GetUser
\* answered from the store has made one cache read, one store read and one
\* cache set of user:<id>, and the set, when it succeeds, stores an entry
\* that expires TTL from now and changes no other key.
C8_TTLWithoutRefresh ==
    [][\A p \in Procs :
          LET key == CacheKey(arg[p].id) IN
          /\ pc[p] = "get_cache" /\ pc'[p] = "done"
                => /\ cache[key].present
                   /\ now < cache[key].setAt + TTL
                   /\ cache' = cache
                   /\ calls'[p] = << <<"cache.Get", key, TRUE>> >>
                   /\ res'[p].code = "OK"
          /\ pc[p] = "get_cache" /\ Steps(p) /\ ~cache[key].present
                => pc'[p] = "get_store"
          /\ pc[p] = "get_set" /\ Steps(p)
                => /\ pc'[p] = "done" /\ res'[p].code = "OK"
                   /\ CallNames(calls'[p]) = <<"cache.Get", "repo.GetByID", "cache.Set">>
                   /\ calls'[p][3][2] = key
                   /\ calls'[p][3][3] => /\ cache'[key].present
                                         /\ cache'[key].setAt = now
                                         /\ cache'[key].exp = now + TTL
                   /\ \A k \in Keys \ {key} : cache'[k] = cache[k]]_vars

\* A GetUser has been answered from an entry that is now in its last minute,
\* and another from the store after an entry of the same key had expired.
C8_Witness ==
    \E p, q \in Procs :
        /\ FromCache(p) /\ cache[CacheKey(arg[p].id)].present
        /\ now = cache[CacheKey(arg[p].id)].setAt + TTL - 1
        /\ cache[CacheKey(arg[p].id)].setAt > 0
        /\ FromStore(q) /\ calls[q][3][3]

-----------------------------------------------------------------------------
(* C9 *)

\* C9: a GetUser that ends in NotFound has issued no cache set and its last
\* step leaves the cache as it was; and an entry is created or given a new
\* value only by the cache set of a GetUser that read the row of that id from
\* the store.
C9_NoNegativeCaching ==
    [][/\ \A p \in Procs :
             op[p] = "GetUser" /\ Returns(p) /\ res'[p].code = "NotFound"
                 => /\ cache' = cache
                    /\ \A i \in 1..Len(calls'[p]) : calls'[p][i][1] # "cache.Set"
       /\ \A id \in Ids :
             /\ cache'[CacheKey(id)].present
             /\ cache'[CacheKey(id)].val # cache[CacheKey(id)].val
             => \E p \in Procs :
                    /\ pc[p] = "get_set" /\ Returns(p)
                    /\ arg[p].id = id /\ usr[p].id = id
                    /\ calls[p][2] = <<"repo.GetByID", ToString(id), TRUE>>]_vars

\* A GetUser of an id that the store does not hold has failed NotFound on the
\* answer of the store, and nothing is cached for the id.
C9_Witness ==
    \E p \in Procs :
        /\ Done(p, "GetUser") /\ res[p].code = "NotFound" /\ res[p].err = "no rows"
        /\ ~cache[CacheKey(arg[p].id)].present
        /\ \E q \in Procs : FromStore(q) /\ cache[CacheKey(arg[q].id)].present

-----------------------------------------------------------------------------
(* C10 *)

\* The lifecycle client has received n responses.
Received(n) == Len(hist) >= n

\* C10: in the lifecycle of one client with a working cache, the GetUser
\* after CreateUser is answered from the store with the data just created and
\* leaves them cached; the second GetUser is answered by the cache read alone
\* with the same fields; the GetUser after UpdateUser(id, e2, n2) returns e2
\* and n2; the GetUser after DeleteUser fails NotFound.
C10_Lifecycle ==
    /\ Received(2) =>
          /\ hist[2].res.code = "OK"
          /\ hist[2].res.user = hist[1].res.user
          /\ hist[2].res.user.email = hist[1].arg.email
          /\ hist[2].res.user.name = hist[1].arg.name
          /\ CallNames(hist[2].calls) = <<"cache.Get", "repo.GetByID", "cache.Set">>
          /\ hist[2].cache[CacheKey(CreatedID)].present
          /\ PbUser(Unmarshal(hist[2].cache[CacheKey(CreatedID)].val)) = hist[2].res.user
    /\ Received(3) =>
          /\ hist[3].res.code = "OK"
          /\ hist[3].calls = << <<"cache.Get", CacheKey(CreatedID), TRUE>> >>
          /\ hist[3].res.user = hist[2].res.user
    /\ Received(6) =>
          /\ hist[6].res.code = "OK"
          /\ hist[6].res.user.id = CreatedID
          /\ hist[6].res.user.email = hist[5].arg.email
          /\ hist[6].res.user.name = hist[5].arg.name
    /\ Received(8) =>
          /\ hist[8].res.code = "NotFound"
          /\ hist[8].res.user = NoUser

\* The client has run the whole lifecycle; the update changed email and name.
C10_Witness ==
    /\ Received(8)
    /\ hist[2].res.user.email = "a@x.com"
    /\ hist[5].res.code = "OK" /\ hist[5].arg.email = "b@x.com"
    /\ hist[5].cache[CacheKey(CreatedID)] = NoEntry
    /\ hist[7].res.code = "OK"
    /\ hist[8].res.err = "no rows"

-----------------------------------------------------------------------------
(* C11 *)

\* C11: the list query a ListUsers request is about to send to the store has
\* its limit in 1..100 and its offset equal to (max(page, 1) - 1) * limit,
\* which is not negative, whatever page and page_size the request carries.
C11_PaginationBounds ==
    \A p \in Procs :
        pc[p] = "list_rows"
            => LET limit  == PageSize(arg[p])
                   offset == Offset(arg[p])
                   page   == IF arg[p].page > 1 THEN arg[p].page ELSE 1
               IN  /\ limit \in 1..MaxPageSize
                   /\ offset = (page - 1) * limit
                   /\ offset >= 0

-----------------------------------------------------------------------------
(* C13 *)

\* C13: the key users:list is never set; a ListUsers request issues no cache
\* call, and one that returns success has read the page and then the count
\* from the store.
C13_ListNeverCached ==
    /\ ~cache[ListKey].present
    /\ \A p \in Procs :
          op[p] = "ListUsers"
              => /\ CacheOps(calls[p]) = <<>>
                 /\ Done(p, "ListUsers") /\ res[p].code = "OK"
                        => CallNames(calls[p]) = <<"repo.List", "repo.Count">>

\* A ListUsers has returned a user after a CreateUser whose delete of
\* users:list succeeded.
C13_Witness ==
    \E p, q \in Procs :
        /\ Done(p, "ListUsers") /\ res[p].code = "OK" /\ Len(res[p].users) > 0
        /\ Done(q, "CreateUser") /\ res[q].code = "OK"
        /\ CallsOn(q, "cache.Delete", ListKey) # {}
        /\ \A i \in CallsOn(q, "cache.Delete", ListKey) : calls[q][i][3]

-----------------------------------------------------------------------------
(* C12 *)

\* The ids of the users in a ListUsers response.
IdsOf(r) == {r.users[i].id : i \in 1..Len(r.users)}

\* C12: over a fixed table, two ListUsers responses of the same page size and
\* different pages share no user; every page is ordered by creation time
\* descending; pages 1 and 2, when two pages hold the whole table, cover every
\* user; and total is the number of rows of the table.
C12_PaginationDeterminism ==
    \A p, q \in Procs :
        Done(p, "ListUsers") /\ Done(q, "ListUsers")
            => /\ res[p].code = "OK"
               /\ res[p].total = Cardinality(users)
               /\ \A i, j \in 1..Len(res[p].users) :
                      i < j => res[p].users[i].created_at >= res[p].users[j].created_at
               /\ arg[p].size = arg[q].size /\ arg[p].page # arg[q].page
                      => IdsOf(res[p]) \cap IdsOf(res[q]) = {}
               /\ /\ arg[p].size = arg[q].size
                  /\ arg[p].page = 1 /\ arg[q].page = 2
                  /\ 2 * arg[p].size >= Cardinality(users)
                  => IdsOf(res[p]) \cup IdsOf(res[q]) = {u.id : u \in users}

-----------------------------------------------------------------------------
(* C14 *)

\* C14: a CreateUser that the store rejects for the uniqueness of the email
\* returns the Conflict category (the gRPC code AlreadyExists), and has
\* issued no cache call.
C14_DuplicateEmailIsConflict ==
    \A p \in Procs :
        Done(p, "CreateUser") /\ res[p].err = "unique violation"
            => /\ res[p].code \in {"Conflict", "AlreadyExists"}
               /\ CacheOps(calls[p]) = <<>>

-----------------------------------------------------------------------------
(* C15 *)

\* C15: an UpdateUser whose read finds no row for the id returns the NotFound
\* category, and has issued no store update and no cache call.
C15_UpdateOfMissingIsNotFound ==
    \A p \in Procs :
        Done(p, "UpdateUser") /\ res[p].err = "no rows"
            => /\ res[p].code = "NotFound"
               /\ CallsOf(p, "repo.Update") = {}
               /\ CacheOps(calls[p]) = <<>>

-----------------------------------------------------------------------------
(* C16 *)

\* C16: a GetUser returns NotFound only when the store has answered that it
\* holds no row for the id; when the store read fails otherwise the code is
\* Unavailable or Internal.
C16_GetErrorCategory ==
    \A p \in Procs :
        Done(p, "GetUser")
            => /\ res[p].code = "NotFound" => res[p].err = "no rows"
               /\ res[p].err = "store failure" => res[p].code \in {"Unavailable", "Internal"}

-----------------------------------------------------------------------------
(* C17 *)

\* C17: every row of the table has a non-empty email and a non-empty name,
\* and a CreateUser or UpdateUser sent with an empty email or an empty name
\* does not return success.
C17_NonEmptyFields ==
    /\ \A u \in users : u.email # "" /\ u.name # ""
    /\ \A p \in Procs :
          /\ Done(p, "CreateUser") \/ Done(p, "UpdateUser")
          /\ arg[p].email = "" \/ arg[p].name = ""
          => res[p].code # "OK"

-----------------------------------------------------------------------------
(* C18 *)
(* SpecCancel: the caller of a request may cancel it, or its deadline may   *)
(* pass, while the request is between two of its calls. Every call made     *)
(* with a context that is done returns the context's error; the others are  *)
(* answered.                                                                *)

\* The context of request p is done.
Cancelled(p) == CallsOf(p, "ctx.Done") # {}

\* The context of request p, which is under way, becomes done.
Cancel(p) ==
    /\ pc[p] \notin {"idle", "done"}
    /\ ~Cancelled(p)
    /\ Call(p, "ctx.Done", "", FALSE)
    /\ UNCHANGED <<server, pc, op, arg, usr, lst, res, nops, ghosts, client>>

NextCancel ==
    \/ \E p \in Procs, id \in Ids : StartGet(p, id)
    \/ \E p \in Procs : GetCache(p, ~Cancelled(p))
    \/ \E p \in Procs : GetStore(p, ~Cancelled(p))
    \/ \E p \in Procs : GetSet(p, ~Cancelled(p))
    \/ \E p \in Procs, id \in Ids, in \in Inputs : StartUpdate(p, id, in)
    \/ \E p \in Procs : UpdRead(p, ~Cancelled(p))
    \/ \E p \in Procs : UpdStore(p, ~Cancelled(p))
    \/ \E p \in Procs : UpdDel1(p, ~Cancelled(p))
    \/ \E p \in Procs : UpdDel2(p, ~Cancelled(p))
    \/ \E p \in Procs, id \in Ids : StartDelete(p, id)
    \/ \E p \in Procs : DelStore(p, ~Cancelled(p))
    \/ \E p \in Procs : DelDel1(p, ~Cancelled(p))
    \/ \E p \in Procs : DelDel2(p, ~Cancelled(p))
    \/ \E p \in Procs, in \in Inputs : StartCreate(p, in)
    \/ \E p \in Procs : CrStore(p, ~Cancelled(p))
    \/ \E p \in Procs : CrDel(p, ~Cancelled(p))
    \/ \E p \in Procs, in \in ListInputs : StartList(p, in)
    \/ \E p \in Procs : ListRows(p, ~Cancelled(p))
    \/ \E p \in Procs : ListCount(p, ~Cancelled(p))
    \/ \E p \in Procs : Cancel(p)

SpecCancel == Init /\ [][NextCancel]_vars

\* C18: a request whose context became done while it was under way returns
\* a cancellation condition (Canceled or DeadlineExceeded), never success
\* and never not-found.
C18_CancellationReported ==
    \A p \in Procs :
        pc[p] = "done" /\ Cancelled(p)
        => res[p].code \in {"Canceled", "DeadlineExceeded"}

-----------------------------------------------------------------------------
(* C19 *)

\* C19: every row of the table has updated_at >= created_at, and no step
\* changes the created_at of a row that stays in the table; the UPDATE of
\* UpdateUser keeps the ids of the table and every row other than its own.
C19_TimestampsAndIdentity ==
    /\ [](\A u \in users : u.updated_at >= u.created_at)
    /\ [][/\ \A u \in users : \A v \in users' :
                 v.id = u.id => v.created_at = u.created_at
          /\ \A p \in Procs :
                 pc[p] = "upd_store" /\ pc'[p] = "upd_del1"
                 => /\ {v.id : v \in users'} = {u.id : u \in users}
                    /\ \A u \in users : u.id # arg[p].id => u \in users'
                    /\ \A v \in users' : v.id = arg[p].id =>
                           /\ v.email = arg[p].email
                           /\ v.name = arg[p].name]_vars

\* An UpdateUser has returned success and its row, created earlier, carries
\* a later updated_at.
C19_Witness ==
    \E p \in Procs :
        /\ Done(p, "UpdateUser")
        /\ res[p].code = "OK"
        /\ \E u \in users :
              /\ u.id = arg[p].id
              /\ u.email = arg[p].email
              /\ u.updated_at > u.created_at

-----------------------------------------------------------------------------
(* C20 *)

\* C20: the user returned by a successful CreateUser has created_at equal
\* to updated_at, however the clock advances between the steps of the
\* request.
C20_CreatedEqualsUpdated ==
    \A p \in Procs :
        Done(p, "CreateUser") /\ res[p].code = "OK"
        => res[p].user.created_at = res[p].user.updated_at

-----------------------------------------------------------------------------
(* C21 *)
(* SpecAdvisory: one client sends any requests one after the other; every   *)
(* store call is answered and every cache call may fail, so that the cache  *)
(* hits, misses, keeps stale values or is bypassed. The client records, for *)
(* each request, the response and the store it left.                        *)

\* The client sends a request of its choice.
AnySend ==
    /\ step < MaxOps
    /\ Len(hist) = step
    /\ \/ \E in \in Inputs : nextID <= MaxID /\ ArriveCreate(Client, in)
       \/ \E id \in Ids : ArriveGet(Client, id)
       \/ \E in \in ListInputs : ArriveList(Client, in)
       \/ \E id \in Ids, in \in Inputs : ArriveUpdate(Client, id, in)
       \/ \E id \in Ids : ArriveDelete(Client, id)
    /\ step' = step + 1
    /\ UNCHANGED <<nops, hist>>

\* The client receives the response; the record keeps the store of that moment.
AnyRecv ==
    /\ pc[Client] = "done"
    /\ Len(hist) < step
    /\ hist' = Append(hist, [op |-> op[Client], arg |-> arg[Client], res |-> res[Client],
                             users |-> users, nextID |-> nextID])
    /\ UNCHANGED <<server, locals, ghosts, nops, step>>

NextAdvisory ==
    \/ AnySend
    \/ AnyRecv
    \/ \E up \in BOOLEAN : GetCache(Client, up)
    \/ GetStore(Client, TRUE)
    \/ \E up \in BOOLEAN : GetSet(Client, up)
    \/ UpdRead(Client, TRUE)
    \/ UpdStore(Client, TRUE)
    \/ \E up \in BOOLEAN : UpdDel1(Client, up)
    \/ \E up \in BOOLEAN : UpdDel2(Client, up)
    \/ DelStore(Client, TRUE)
    \/ \E up \in BOOLEAN : DelDel1(Client, up)
    \/ \E up \in BOOLEAN : DelDel2(Client, up)
    \/ CrStore(Client, TRUE)
    \/ \E up \in BOOLEAN : CrDel(Client, up)
    \/ ListRows(Client, TRUE)
    \/ ListCount(Client, TRUE)

SpecAdvisory == Init /\ [][NextAdvisory]_vars

\* What the store alone makes of a request: the outcomes (store left,
\* sequence value left, response) of request (o, a) on table s with sequence
\* value n, read off the repository statements and the handlers' replies.
\* The cache is no argument of it.
StoreOutcomes(s, n, o, a) ==
    LET out(t, m, r) == [users |-> t, nextID |-> m, res |-> r]
        ok(u)        == [NoRes EXCEPT !.code = "OK", !.user = PbUser(u)]
        fail(c, e)   == [NoRes EXCEPT !.code = c, !.err = e]
        has          == \E u \in s : u.id = a.id
        row          == CHOOSE u \in s : u.id = a.id
        taken(id)    == \E u \in s : u.email = a.email /\ u.id # id
    IN  CASE o = "CreateUser" ->
               LET u == [id |-> n, email |-> a.email, name |-> a.name,
                         created_at |-> now, updated_at |-> now]
               IN  IF taken(0)
                     THEN {out(s, n + 1, fail("Internal", "unique violation"))}
                     ELSE {out(s \cup {u}, n + 1, ok(u))}
          [] o = "UpdateUser" ->
               IF ~has THEN {out(s, n, fail("Internal", "no rows"))}
               ELSE IF taken(a.id) THEN {out(s, n, fail("Internal", "unique violation"))}
               ELSE LET u == [row EXCEPT !.email = a.email, !.name = a.name,
                                         !.updated_at = now]
                    IN  {out((s \ {row}) \cup {u}, n, ok(u))}
          [] o = "DeleteUser" ->
               {out({u \in s : u.id # a.id}, n, [NoRes EXCEPT !.code = "OK"])}
          [] o = "ListUsers" ->
               IF PageSize(a) < 0 \/ Offset(a) < 0
                 THEN {out(s, n, fail("Internal", "invalid limit"))}
                 ELSE LET k == Cardinality(s) IN
                      {out(s, n, [NoRes EXCEPT
                                    !.code = "OK",
                                    !.users =
                                       [i \in 1..Len(Window(q, PageSize(a), Offset(a))) |->
                                          PbUser(Window(q, PageSize(a), Offset(a))[i])],
                                    !.total = k]) :
                         q \in {f \in [1..k -> s] :
                                   /\ \A i, j \in 1..k : i # j => f[i] # f[j]
                                   /\ \A i, j \in 1..k :
                                        i < j => f[i].created_at >= f[j].created_at}}
          [] OTHER -> {}

\* The store and the sequence value the n-th request of the client found.
StoreBefore(n) ==
    IF n = 1 THEN [users |-> {}, nextID |-> FirstID]
             ELSE [users |-> hist[n - 1].users, nextID |-> hist[n - 1].nextID]

\* C21: whatever the cache did, a GetUser leaves the store as it found it,
\* and the response of every CreateUser, UpdateUser, DeleteUser and
\* ListUsers, with the store it leaves, is an outcome the store alone
\* determines from the store the request found.
C21_CacheHasNoAuthority ==
    \A n \in 1..Len(hist) :
        LET h == hist[n]
            b == StoreBefore(n)
        IN  IF h.op = "GetUser"
              THEN h.users = b.users /\ h.nextID = b.nextID
              ELSE [users |-> h.users, nextID |-> h.nextID, res |-> h.res]
                     \in StoreOutcomes(b.users, b.nextID, h.op, h.arg)

\* The cache has answered a GetUser with a value the store no longer holds,
\* after an UpdateUser or DeleteUser whose cache delete failed.
C21_Witness ==
    \E n \in 1..Len(hist) :
        /\ hist[n].op = "GetUser"
        /\ hist[n].res.code = "OK"
        /\ \A u \in hist[n].users : PbUser(u) # hist[n].res.user
        /\ \E m \in 1..(n - 1) : hist[m].op \in {"UpdateUser", "DeleteUser"}
                                 /\ hist[m].res.code = "OK"

-----------------------------------------------------------------------------
(* C22 *)
(* SpecChain: the unary interceptor chain around a handler. A request goes  *)
(* down the chain one interceptor per step, the handler returns a response, *)
(* returns an error or panics, and the request comes back up the chain: an  *)
(* interceptor that is returned to runs the code after its handler(ctx,     *)
(* req); a panic that passes through an interceptor skips that code, unless *)
(* a deferred recover() of the interceptor stops it. calls[p] is the log of *)
(* the frames entered and left.                                             *)

RPCs == {"CreateUser", "GetUser", "ListUsers", "UpdateUser", "DeleteUser"}

\* The status codes the handlers return.
HandlerCodes == {"OK", "NotFound", "Internal"}

\* grpc.ChainUnaryInterceptor with RecoveryInterceptor first.
Chain_RecoveryFirst == <<"Recovery", "Logging", "Metrics">>

\* grpc.ChainUnaryInterceptor(LoggingInterceptor, MetricsInterceptor,
\* RecoveryInterceptor): the first interceptor is the outermost.
Chain == <<"Logging", "Metrics", "Recovery">>

\* The interceptor frames of request p that are on the stack.
Depth(p) ==
    Cardinality({i \in 1..Len(calls[p]) : calls[p][i][2] = "enter"})
    - Cardinality({i \in 1..Len(calls[p]) : calls[p][i][2] \in {"leave", "unwind"}})

\* The gRPC server hands a request to the chain.
Receive(p, name) ==
    /\ Budget
    /\ Arrive(p, name, NoArg, "entering", NoUser, NoLast, FALSE)

\* The next interceptor of the chain starts and calls handler(ctx, req).
Enter(p) ==
    /\ pc[p] = "entering"
    /\ Depth(p) < Len(Chain)
    /\ Call(p, Chain[Depth(p) + 1], "enter", TRUE)
    /\ UNCHANGED <<server, pc, op, arg, usr, lst, res, nops, ghosts, client>>

\* The handler runs: it returns with a status code, or it panics.
Handle(p, code, panics) ==
    /\ pc[p] = "entering"
    /\ Depth(p) = Len(Chain)
    /\ Call(p, "handler", IF panics THEN "panic" ELSE "return", ~panics /\ code = "OK")
    /\ pc' = [pc EXCEPT ![p] = IF panics THEN "panicking" ELSE "returning"]
    /\ res' = [res EXCEPT ![p] = IF panics THEN NoRes ELSE [NoRes EXCEPT !.code = code]]
    /\ UNCHANGED <<server, op, arg, usr, lst, nops, ghosts, client>>

\* handler(ctx, req) returns to the innermost interceptor on the stack, which
\* runs to its end: LoggingInterceptor logs error = (err != nil).
Leave(p) ==
    /\ pc[p] = "returning"
    /\ Depth(p) > 0
    /\ Call(p, Chain[Depth(p)], "leave", res[p].code = "OK")
    /\ pc' = [pc EXCEPT ![p] = IF Depth(p) = 1 THEN "done" ELSE "returning"]
    /\ UNCHANGED <<server, op, arg, usr, lst, res, nops, ghosts, client>>

\* A panic reaches the innermost interceptor on the stack. RecoveryInterceptor
\* recovers in its deferred function and returns (nil, Internal); the others
\* have no deferred function and the panic passes through them.
Unwind(p) ==
    /\ pc[p] = "panicking"
    /\ Depth(p) > 0
    /\ IF Chain[Depth(p)] = "Recovery"
         THEN /\ Call(p, "Recovery", "leave", FALSE)
              /\ res' = [res EXCEPT ![p] = [NoRes EXCEPT !.code = "Internal", !.err = "panic"]]
              /\ pc' = [pc EXCEPT ![p] = IF Depth(p) = 1 THEN "done" ELSE "returning"]
         ELSE /\ Call(p, Chain[Depth(p)], "unwind", FALSE)
              /\ res' = res
              /\ pc' = pc
    /\ UNCHANGED <<server, op, arg, usr, lst, nops, ghosts, client>>

\* A panic has left the chain: the goroutine of request p has no recover
\* left and the process dies.
Escaped(p) == pc[p] = "panicking" /\ Depth(p) = 0

NextChain ==
    \/ \E p \in Procs, name \in RPCs : Receive(p, name)
    \/ \E p \in Procs : Enter(p)
    \/ \E p \in Procs, code \in HandlerCodes, panics \in BOOLEAN : Handle(p, code, panics)
    \/ \E p \in Procs : Leave(p)
    \/ \E p \in Procs : Unwind(p)

SpecChain == Init /\ [][NextChain]_vars

\* The handler of request p panicked.
Panicked(p) == \E i \in 1..Len(calls[p]) : calls[p][i] = <<"handler", "panic", FALSE>>

\* The names of the frames request p entered, in order.
Entered(p) ==
    LET RECURSIVE pick(_)
        pick(s) == IF s = <<>> THEN <<>>
                   ELSE IF Head(s)[2] = "enter" THEN <<Head(s)[1]>> \o pick(Tail(s))
                   ELSE pick(Tail(s))
    IN  pick(calls[p])

\* C22: every request that reaches its handler has entered logging, then
\* metrics, then recovery; a request whose handler panicked returns
\* Internal; the logging interceptor records every returned request, as
\* failed unless the response is OK; and no panic leaves the chain, which
\* would end the process.
C22_InterceptorPipeline ==
    /\ \A p \in Procs : ~Escaped(p)
    /\ \A p \in Procs :
          CallsOf(p, "handler") # {} => Entered(p) = <<"Logging", "Metrics", "Recovery">>
    /\ \A p \in Procs :
          pc[p] = "done" =>
              /\ Panicked(p) => res[p].code = "Internal"
              /\ calls[p][Len(calls[p])] = <<"Logging", "leave", res[p].code = "OK">>
              /\ \E i \in 1..Len(calls[p]) : calls[p][i][1] = "Metrics"
                                             /\ calls[p][i][2] = "leave"

\* A request whose handler panicked has returned Internal and was logged as
\* failed, and the server has returned OK to another request.
C22_Witness ==
    \E p, q \in Procs :
        /\ p # q
        /\ pc[p] = "done" /\ Panicked(p)
        /\ res[p].code = "Internal"
        /\ calls[p][Len(calls[p])] = <<"Logging", "leave", FALSE>>
        /\ pc[q] = "done" /\ res[q].code = "OK"

-----------------------------------------------------------------------------
(* C23 *)
(* SpecStop: function main from the moment the server serves. pc[Main] is   *)
(* the position of main; calls[Main] logs the expiry of the shutdown        *)
(* context. Requests are accepted until GracefulStop is called and those in *)
(* flight run to their end.                                                 *)

Main == "main"

InitStop ==
    /\ users = {}
    /\ nextID = FirstID
    /\ cache = [k \in Keys |-> NoEntry]
    /\ now = 0
    /\ pc = [p \in Procs \cup {Main} |-> IF p = Main THEN "serving" ELSE "idle"]
    /\ op = [p \in Procs |-> ""]
    /\ arg = [p \in Procs |-> NoArg]
    /\ usr = [p \in Procs |-> NoUser]
    /\ lst = [p \in Procs |-> <<>>]
    /\ res = [p \in Procs |-> NoRes]
    /\ calls = [p \in Procs \cup {Main} |-> <<>>]
    /\ nops = 0
    /\ last = [i \in Ids |-> NoLast]
    /\ lastWrite = [i \in Ids |-> 0]
    /\ expect = [p \in Procs |-> NoLast]
    /\ absent = [p \in Procs |-> FALSE]
    /\ clean = [p \in Procs |-> FALSE]
    /\ stale = [p \in Procs |-> FALSE]
    /\ step = 0
    /\ hist = <<>>

\* The gRPC server accepts new RPCs.
Accepting == pc[Main] \in {"serving", "signalled"}

MainStep(to) ==
    /\ pc' = [pc EXCEPT ![Main] = to]
    /\ UNCHANGED <<server, op, arg, usr, lst, res, calls, nops, ghosts, client>>

\* <-quit: SIGINT or SIGTERM arrives.
Signal ==
    /\ pc[Main] = "serving"
    /\ MainStep("signalled")

\* ctx, cancel := context.WithTimeout(context.Background(), 30*time.Second),
\* then grpcServer.GracefulStop() is called: the listeners are closed.
StopCalled ==
    /\ pc[Main] = "signalled"
    /\ MainStep("stopping")

\* The 30 seconds of the shutdown context run out.
ShutdownTimeout ==
    /\ pc[Main] \in {"stopping", "closing", "logging"}
    /\ ~Cancelled(Main)
    /\ Call(Main, "ctx.Done", "", FALSE)
    /\ UNCHANGED <<server, pc, op, arg, usr, lst, res, nops, ghosts, client>>

\* grpcServer.GracefulStop() returns: no RPC is in flight.
StopReturns ==
    /\ pc[Main] = "stopping"
    /\ \A p \in Procs : pc[p] \in {"idle", "done"}
    /\ MainStep("closing")

\* db.Close()
DbClose ==
    /\ pc[Main] = "closing"
    /\ MainStep("logging")

\* slog.Info("server stopped", slog.String("context", ctx.Err().Error())):
\* ctx.Err() is nil until the context is done, and calling Error() on the nil
\* error panics.
LogStopped ==
    /\ pc[Main] = "logging"
    /\ MainStep(IF Cancelled(Main) THEN "exited" ELSE "panicked")

NextStop ==
    \/ \E p \in Procs, id \in Ids : Accepting /\ StartGet(p, id)
    \/ \E p \in Procs : GetCache(p, TRUE)
    \/ \E p \in Procs : GetStore(p, TRUE)
    \/ \E p \in Procs : GetSet(p, TRUE)
    \/ \E p \in Procs, in \in Inputs : Accepting /\ StartCreate(p, in)
    \/ \E p \in Procs : CrStore(p, TRUE)
    \/ \E p \in Procs : CrDel(p, TRUE)
    \/ Signal
    \/ StopCalled
    \/ ShutdownTimeout
    \/ StopReturns
    \/ DbClose
    \/ LogStopped

SpecStop == InitStop /\ [][NextStop]_vars

\* C23: after the signal main never faults, whether or not the shutdown
\* context has expired when it reaches its final step; and while it closes
\* the pool and at its final step no RPC is in flight.
C23_GracefulShutdown ==
    /\ pc[Main] # "panicked"
    /\ pc[Main] \in {"closing", "logging", "exited"}
         => \A p \in Procs : pc[p] \in {"idle", "done"}

-----------------------------------------------------------------------------
(* C24 *)
(* SpecRace: UpdateUser requests on two connections race on one sample row  *)
(* while the clock runs; every call is answered.                            *)

NextRace ==
    \/ \E p \in Procs, in \in Inputs : Aged /\ StartUpdate(p, FirstID, in)
    \/ \E p \in Procs : UpdRead(p, TRUE)
    \/ \E p \in Procs : UpdStore(p, TRUE)
    \/ \E p \in Procs : UpdDel1(p, TRUE)
    \/ \E p \in Procs : UpdDel2(p, TRUE)
    \/ now < MaxTime /\ Tick

SpecRace == InitList /\ [][NextRace]_vars

\* Requests p and q are two UpdateUser requests on one id that have both
\* returned success.
BothUpdated(p, q) ==
    /\ p # q
    /\ Done(p, "UpdateUser") /\ res[p].code = "OK"
    /\ Done(q, "UpdateUser") /\ res[q].code = "OK"
    /\ arg[p].id = arg[q].id

\* C24: when two UpdateUser requests on one id have both returned success,
\* the stored (email, name) is the pair one of them sent, and the stored
\* created_at is the one both of them read.
C24_NoMixedUpdate ==
    \A p, q \in Procs :
        BothUpdated(p, q) /\ HasRow(arg[p].id)
        => LET u == Row(arg[p].id) IN
           /\ <<u.email, u.name>> \in {<<arg[p].email, arg[p].name>>,
                                       <<arg[q].email, arg[q].name>>}
           /\ PbUser(u).created_at = res[p].user.created_at
           /\ PbUser(u).created_at = res[q].user.created_at

\* Two UpdateUser requests with different pairs have both returned success;
\* the stored pair is that of the request that read the clock first, whose
\* write was applied last.
C24_Witness ==
    \E p, q \in Procs :
        /\ BothUpdated(p, q)
        /\ arg[p].email # arg[q].email
        /\ res[p].user.updated_at < res[q].user.updated_at
        /\ HasRow(arg[p].id)
        /\ Row(arg[p].id).email = arg[p].email
        /\ Row(arg[p].id).name = arg[p].name
        /\ PbUser(Row(arg[p].id)).updated_at = res[p].user.updated_at

-----------------------------------------------------------------------------
(* C25 *)

\* C25: the UPDATE of an UpdateUser request that goes on to return success
\* is applied to a table that holds a row of its id; and no step of an
\* UpdateUser request changes the set of stored ids.
C25_UpdateNeedsRow ==
    [][\A p \in Procs :
          /\ pc[p] = "upd_store" /\ pc'[p] = "upd_del1" => HasRow(arg[p].id)
          /\ op[p] = "UpdateUser" /\ pc[p] # pc'[p] /\ pc[p] \notin {"idle", "done"}
               => {u.id : u \in users'} = {u.id : u \in users}]_vars

-----------------------------------------------------------------------------
(* C26 *)

\* What Redis holds: the entries without their history fields.
Held(c) == [k \in Keys |-> [present |-> c[k].present, val |-> c[k].val, exp |-> c[k].exp]]

\* DeleteUser request p has returned and the store answered its call.
Deleted(p) == Done(p, "DeleteUser") /\ res[p].err # "store failure"

\* C26: a DeleteUser whose store call is answered returns success after
\* repo.Delete and the two cache deletes, whether or not the table held a
\* row of its id; its DELETE takes the rows of its id out of the table and
\* nothing else, so that on a table without such a row it changes nothing;
\* and a cache delete of a key that is not there leaves the cache as it is.
C26_DeleteIdempotent ==
    /\ [](\A p \in Procs :
             Deleted(p) =>
                 /\ res[p].code = "OK"
                 /\ CallNames(calls[p]) = <<"repo.Delete", "cache.Delete", "cache.Delete">>
                 /\ calls[p][2][2] = CacheKey(arg[p].id)
                 /\ calls[p][3][2] = ListKey)
    /\ [][\A p \in Procs :
             /\ pc[p] = "del_store" /\ pc'[p] = "del_del1"
                  => /\ users' = {u \in users : u.id # arg[p].id}
                     /\ ~HasRow(arg[p].id) => users' = users
                     /\ Held(cache') = Held(cache)
             /\ pc[p] = "del_del1" /\ pc'[p] = "del_del2"
                  /\ ~cache[CacheKey(arg[p].id)].present
                  => Held(cache') = Held(cache) /\ users' = users
             /\ pc[p] = "del_del2" /\ pc'[p] = "done"
                  /\ ~cache[ListKey].present
                  => Held(cache') = Held(cache) /\ users' = users]_vars

\* A DeleteUser of an id whose row an earlier DeleteUser took out has
\* returned success: both requests are done and the table has no row of it.
C26_Witness ==
    \E p, q \in Procs :
        /\ p # q
        /\ Deleted(p) /\ Deleted(q)
        /\ arg[p].id = arg[q].id
        /\ nextID > arg[p].id
        /\ ~HasRow(arg[p].id)
        /\ ~cache[CacheKey(arg[p].id)].present

-----------------------------------------------------------------------------
(* C27 *)

\* C27: a ListUsers that returns success returns at most total users and at
\* most pageSize users.
C27_PageWithinTotal ==
    \A p \in Procs :
        Done(p, "ListUsers") /\ res[p].code = "OK"
        => /\ Len(res[p].users) <= res[p].total
           /\ Len(res[p].users) <= PageSize(arg[p])

-----------------------------------------------------------------------------
(* C28 *)

\* C28: Redis holds nothing under users:list, and every entry under
\* user:<k> unmarshals to a user of id k; a GetUser request takes its user
\* from the row the table holds for its id at the moment of repo.GetByID and
\* keeps it until it returns; and an entry is created or given a new value
\* only by a GetUser request at its cache set, under the key of its id and
\* with the marshalled user it read.
C28_GenuineSnapshots ==
    /\ [](/\ ~cache[ListKey].present
          /\ \A k \in Ids :
                cache[CacheKey(k)].present
                => /\ UnmarshalOK(cache[CacheKey(k)].val)
                   /\ Unmarshal(cache[CacheKey(k)].val).id = k)
    /\ [][/\ \A p \in Procs :
                /\ pc[p] = "get_store" /\ pc'[p] = "get_set"
                     => HasRow(arg[p].id) /\ usr'[p] = Row(arg[p].id)
                /\ pc[p] = "get_set" => usr'[p] = usr[p] /\ arg'[p] = arg[p]
          /\ \A k \in Keys :
                Held(cache')[k] # Held(cache)[k] /\ cache'[k].present
                => \E p \in Procs :
                      /\ pc[p] = "get_set" /\ pc'[p] = "done"
                      /\ usr[p].id = arg[p].id
                      /\ k = CacheKey(arg[p].id)
                      /\ cache'[k].val = Marshal(usr[p])]_vars

\* Redis holds, under user:<k>, a record the table held earlier and holds no
\* more: the row of k has been updated since.
C28_Witness ==
    \E k \in Ids :
        /\ cache[CacheKey(k)].present
        /\ HasRow(k)
        /\ Unmarshal(cache[CacheKey(k)].val).id = k
        /\ Unmarshal(cache[CacheKey(k)].val) # Row(k)

====
